---- MODULE Spec2Model ----
(***************************************************************************)
(* BidSync backend: the project / bid / file store and the request         *)
(* handlers of project.controller.js and bid.controller.js.                *)
(*                                                                         *)
(* The store is the set of rows of each table.  Every handler is a         *)
(* sequence of awaited store calls; one action of this module is one       *)
(* awaited call together with the synchronous code that follows it, so     *)
(* that concurrent requests interleave exactly at the awaits.  A request   *)
(* that answers leaves the bag of requests in flight; the status code it   *)
(* answers with is a function of its position and of the store             *)
(* (AnswerProject, AnswerBid and the entry checks).                        *)
(***************************************************************************)
EXTENDS Integers, FiniteSets, Sequences, Bags, TLC

\* ---------------------------------------------------------------- bounds
MaxProjects == 1
MaxBids == 2
MaxFiles == 1
MaxInFlight == 2

\* ----------------------------------------------------------------- users
Buyers == {"B1"}
Sellers == {"S1", "S2"}
Users == Buyers \cup Sellers
NoUser == "null"

\* A registered buyer who owns no project: the caller of the requests that
\* are refused for lack of ownership.
OtherBuyers == {"B2"}
Callers == Users \cup OtherBuyers

Role(u) == IF u \in Buyers \cup OtherBuyers THEN "BUYER" ELSE "SELLER"

\* Email addresses; NoEmail stands for a field the response leaves out.
Emails == {"b1@x", "b2@x", "s1@x", "s2@x"}
NoEmail == "none"

Email(u) ==
    CASE u = "B1" -> "b1@x"
      [] u = "B2" -> "b2@x"
      [] u = "S1" -> "s1@x"
      [] u = "S2" -> "s2@x"

VARIABLES
    users,          \* rows of table User
    nextUserId,     \* index of the next fresh user id
    projects,       \* rows of table Project
    bids,           \* rows of table Bid
    files,          \* rows of table File
    nextProjectId,  \* ids are fresh: a deleted row's id is never given again
    nextBidId,
    nextFileId,
    inflight        \* the requests in flight (a bag), each with its position

vars == <<users, nextUserId, projects, bids, files, nextProjectId, nextBidId,
          nextFileId, inflight>>

accounts == <<users, nextUserId>>

store == <<projects, bids, files>>
ids == <<nextProjectId, nextBidId, nextFileId>>

\* ---------------------------------------------------------- store reads
HasProject(id) == \E p \in projects : p.id = id
ProjectRow(id) == CHOOSE p \in projects : p.id = id

HasBid(id) == \E b \in bids : b.id = id
BidRow(id) == CHOOSE b \in bids : b.id = id

BidsOf(pid) == {b \in bids : b.projectId = pid}

\* A lookup of the caller's bid that leaves the seller out of the where clause.
BidsOfAnySeller(pid, u) == {b \in bids : b.projectId = pid}
FilesOf(pid) == {f \in files : f.projectId = pid}

\* prisma.bid.findFirst({where: {projectId, sellerId}})
BidsOfSeller(pid, u) == {b \in bids : b.projectId = pid /\ b.sellerId = u}

\* A bid lookup that leaves the seller out of the where clause.
MatchingBidsAnySeller(bidId, pid, u) ==
    {b \in bids : b.id = bidId /\ b.projectId = pid}

\* prisma.bid.findFirst({where: {id, projectId, sellerId}})
MatchingBids(bidId, pid, u) ==
    {b \in bids : b.id = bidId /\ b.projectId = pid /\ b.sellerId = u}

\* --------------------------------------------------------------- requests
\* A request: its operation, its position (the store call it awaits), the
\* caller and its parameters.
Request(op, pc, u, pid, bidId, sellerId, val) ==
    [op |-> op, pc |-> pc, user |-> u, pid |-> pid, bidId |-> bidId,
     sellerId |-> sellerId, val |-> val]

Requests == BagToSet(inflight)
InFlight(op) == {r \in Requests : r.op = op}

RECURSIVE Copies(_)
Copies(S) ==
    IF S = {} THEN 0
    ELSE LET r == CHOOSE x \in S : TRUE IN CopiesIn(r, inflight) + Copies(S \ {r})

\* Request r answers and leaves.
Leave(r) ==
    /\ inflight' = inflight (-) SetToBag({r})
    /\ UNCHANGED accounts

\* Request r goes on as record q.
Continue(r, q) ==
    /\ inflight' = (inflight (-) SetToBag({r})) (+) SetToBag({q})
    /\ UNCHANGED accounts

\* A request enters at its first awaited store call: what precedes it
\* (routing, the synchronous role and body checks) touches no shared state.
\* Refused there (code # 0) it is answered at once and changes nothing;
\* otherwise it is in flight at position r.pc.
Enter(r, code) ==
    /\ BagCardinality(inflight) < MaxInFlight
    /\ UNCHANGED accounts
    /\ IF code # 0 THEN UNCHANGED inflight
       ELSE inflight' = inflight (+) SetToBag({r})

\* The users registered so far.
InitialUsers == {[id |-> u, email |-> Email(u), role |-> Role(u)] : u \in Callers}

Init ==
    /\ users = InitialUsers
    /\ nextUserId = 1
    /\ projects = {}
    /\ bids = {}
    /\ files = {}
    /\ nextProjectId = 1
    /\ nextBidId = 1
    /\ nextFileId = 1
    /\ inflight = EmptyBag

\* ------------------------------------------------------------- inputs
ProjectIdInputs == 1..MaxProjects
BidIdInputs == 0..MaxBids          \* 0: the body carries no bidId
EditBidIdInputs == 1..MaxBids
SellerIdInputs == Sellers \cup {NoUser}
TitleInputs == {0, 2}              \* 0: the body carries no title
AmountInputs == {0, 2}             \* 0: the body carries no amount
FileCountInputs == 0..MaxFiles

\* ------------------------------------------- requireProjectOwner (index.js)
\* selectBid's check of the body runs right after the middleware's next().
BodyMissing(r) == r.op = "selectBid" /\ (r.bidId = 0 \/ r.sellerId = NoUser)

\* The middleware's lookup: 404, 403, or next() into the controller (0).
RequireProjectOwner(r) ==
    IF ~HasProject(r.pid) THEN 404
    ELSE IF ProjectRow(r.pid).buyerId # r.user THEN 403
    ELSE IF BodyMissing(r) THEN 400
    ELSE 0

\* The routes PUT /:id, DELETE /:id, POST /:id/select-bid and
\* POST /:id/complete run authenticate, then requireProjectOwner, then the
\* controller.
StartUpdateProject ==
    \E u \in Users, pid \in ProjectIdInputs, title \in TitleInputs :
        LET r == Request("updateProject", "find", u, pid, 0, NoUser, title) IN
        /\ Enter(r, RequireProjectOwner(r))
        /\ UNCHANGED <<store, ids>>

StartDeleteProject ==
    \E u \in Users, pid \in ProjectIdInputs :
        LET r == Request("deleteProject", "find", u, pid, 0, NoUser, 0) IN
        /\ Enter(r, RequireProjectOwner(r))
        /\ UNCHANGED <<store, ids>>

StartSelectBid ==
    \E u \in Users, pid \in ProjectIdInputs, bidId \in BidIdInputs,
       sellerId \in SellerIdInputs :
        LET r == Request("selectBid", "find", u, pid, bidId, sellerId, 0) IN
        /\ Enter(r, RequireProjectOwner(r))
        /\ UNCHANGED <<store, ids>>

StartCompleteProject ==
    \E u \in Users, pid \in ProjectIdInputs :
        LET r == Request("completeProject", "find", u, pid, 0, NoUser, 0) IN
        /\ Enter(r, RequireProjectOwner(r))
        /\ UNCHANGED <<store, ids>>

\* ------------------------------------------------- project.controller.js
\* A status check that lets every project through until it is COMPLETED.
ProjectEditableUntilCompleted(status) == status # "COMPLETED"

\* A status check that refuses every project.
ProjectEditableNever(status) == FALSE

\* if (project.status !== 'PENDING') -> 400   (update, delete, selectBid)
ProjectEditable(status) == status = "PENDING"

\* if (project.status !== 'IN_PROGRESS') -> 400   (completeProject)
ProjectCompletable(status) == status = "IN_PROGRESS"

\* The lookup and the three checks that open updateProject, deleteProject,
\* selectBid and completeProject: 404, 403, 400 (status), or 0 (go on).
OwnedProjectCheck(r) ==
    IF ~HasProject(r.pid) THEN 404
    ELSE IF ProjectRow(r.pid).buyerId # r.user THEN 403
    ELSE IF r.op = "completeProject" /\ ~ProjectCompletable(ProjectRow(r.pid).status)
         THEN 400
    ELSE IF r.op # "completeProject" /\ ~ProjectEditable(ProjectRow(r.pid).status)
         THEN 400
    ELSE 0

\* An authorization that lets every seller through.
UploadAuthorizedAnySeller(p, u) == u = p.buyerId \/ Role(u) = "SELLER"

\* req.user.id === project.buyerId ||
\*   (project.sellerId && req.user.id === project.sellerId)
UploadAuthorized(p, u) ==
    u = p.buyerId \/ (p.sellerId # NoUser /\ u = p.sellerId)

\* uploadProjectFiles' lookup and checks: 404, 403, 400 (no files), or 0.
UploadCheck(r) ==
    IF ~HasProject(r.pid) THEN 404
    ELSE IF ~UploadAuthorized(ProjectRow(r.pid), r.user) THEN 403
    ELSE IF r.val = 0 THEN 400
    ELSE 0

\* Bid_projectId_fkey is ON DELETE RESTRICT: the delete is refused while a bid
\* refers to the project.
DeleteRestricted(pid) == BidsOf(pid) # {}

\* The status code that request r of project.controller.js answers with when
\* it takes its next step in the current store; 0 when that step does not
\* answer.  A store call that is rejected (P2025: the row is gone; a foreign
\* key) is caught, passed to errorHandler and answered 500.
AnswerProject(r) ==
    CASE r.pc = "find" -> OwnedProjectCheck(r)
      [] r.op = "updateProject" /\ r.pc = "update" ->
            IF ~HasProject(r.pid) THEN 500 ELSE 200
      [] r.op = "deleteProject" /\ r.pc = "delete" ->
            IF ~HasProject(r.pid) \/ DeleteRestricted(r.pid) THEN 500 ELSE 200
      [] r.op = "selectBid" /\ r.pc = "findBid" ->
            IF MatchingBids(r.bidId, r.pid, r.sellerId) = {} THEN 404 ELSE 0
      [] r.op = "selectBid" /\ r.pc = "updProject" ->
            IF ~HasProject(r.pid) THEN 500 ELSE 0
      [] r.op = "selectBid" /\ r.pc = "accept" ->
            IF ~HasBid(r.bidId) THEN 500 ELSE 0
      [] r.op = "selectBid" /\ r.pc = "reject" -> 0
      [] r.op = "completeProject" /\ r.pc = "update" ->
            IF ~HasProject(r.pid) THEN 500
            ELSE IF r.sellerId # NoUser THEN 0 ELSE 200
      [] r.op = "uploadProjectFiles" /\ r.pc = "createFile" ->
            IF ~HasProject(r.pid) THEN 500 ELSE 0
      [] r.op = "uploadProjectFiles" /\ r.pc = "reload" ->
            IF HasProject(r.pid) THEN 200 ELSE 500
      [] r.op = "getProjectBids" /\ r.pc = "hasBid" ->
            IF BidsOfSeller(r.pid, r.user) = {} THEN 403 ELSE 0
      [] r.op = "getProjectBids" /\ r.pc = "findMany" -> 200
      [] r.pc = "email" -> 200
      [] OTHER -> 0

\* The lookup step of the four owner-only handlers.  completeProject reads
\* the project with its seller included.
FindOwnedProject(r, nextPc) ==
    /\ r.pc = "find"
    /\ UNCHANGED <<store, ids>>
    /\ IF AnswerProject(r) # 0 THEN Leave(r)
       ELSE Continue(r, [r EXCEPT !.pc = nextPc,
                                  !.sellerId = IF r.op = "completeProject"
                                               THEN ProjectRow(r.pid).sellerId
                                               ELSE r.sellerId])

\* prisma.project.create: status PENDING, buyer connected, no seller.
NewProject(id, u) ==
    [id |-> id, status |-> "PENDING", buyerId |-> u, sellerId |-> NoUser,
     title |-> 1]

\* requireBuyer and the controller's role check, then the body check.
CreateProjectCheck(u, valid) ==
    IF Role(u) # "BUYER" THEN 403
    ELSE IF ~valid THEN 400
    ELSE 0

\* What the body of a createProject request may carry next to the fields the
\* handler reads: a status and a seller ("none", NoUser: not there).
BodyStatuses == {"none", "PENDING", "IN_PROGRESS", "COMPLETED"}
ProjectBodies == [status : BodyStatuses, sellerId : SellerIdInputs]

\* A create that takes the status and the seller from the body.
CreateProjectDataFromBody(id, u, body) ==
    [NewProject(id, u) EXCEPT
        !.status = IF body.status = "none" THEN "PENDING" ELSE body.status,
        !.sellerId = body.sellerId]

\* The data of prisma.project.create: of the body only title, description,
\* budget and deadline are read.
CreateProjectData(id, u, body) == NewProject(id, u)

\* POST /: authenticate, requireBuyer, then createProject, whose only store
\* call is the create (answered 201).
CreateProject ==
    \E u \in Users, valid \in BOOLEAN, body \in ProjectBodies :
        /\ nextProjectId <= MaxProjects
        /\ UNCHANGED <<accounts, bids, files, nextBidId, nextFileId, inflight>>
        /\ IF CreateProjectCheck(u, valid) # 0
           THEN UNCHANGED <<projects, nextProjectId>>
           ELSE /\ projects' = projects \cup {CreateProjectData(nextProjectId, u, body)}
                /\ nextProjectId' = nextProjectId + 1

UpdateProjectFind(r) ==
    /\ r.op = "updateProject"
    /\ FindOwnedProject(r, "update")

\* An update that also writes back the status that the handler's lookup read.
UpdateProjectDataWithStatus(p, title) ==
    IF title # 0 THEN [p EXCEPT !.title = title, !.status = "PENDING"]
    ELSE [p EXCEPT !.status = "PENDING"]

\* updateData of updateProject: only the fields the body carries.
UpdateProjectData(p, title) ==
    IF title # 0 THEN [p EXCEPT !.title = title] ELSE p

UpdateProjectUpdate(r) ==
    /\ r.op = "updateProject" /\ r.pc = "update"
    /\ UNCHANGED <<bids, files, ids>>
    /\ Leave(r)
    /\ IF AnswerProject(r) = 500 THEN UNCHANGED projects
       ELSE projects' = (projects \ {ProjectRow(r.pid)})
                           \cup {UpdateProjectData(ProjectRow(r.pid), r.val)}

DeleteProjectFind(r) ==
    /\ r.op = "deleteProject"
    /\ FindOwnedProject(r, "delete")

\* File_projectId_fkey is ON DELETE CASCADE: the project's files go with it.
CascadeFiles(fs, pid) == {f \in fs : f.projectId # pid}

DeleteProjectDelete(r) ==
    /\ r.op = "deleteProject" /\ r.pc = "delete"
    /\ UNCHANGED <<bids, ids>>
    /\ Leave(r)
    /\ IF AnswerProject(r) = 500 THEN UNCHANGED <<projects, files>>
       ELSE /\ projects' = projects \ {ProjectRow(r.pid)}
            /\ files' = CascadeFiles(files, r.pid)

\* An error path that undoes the project write of the failed request.
OnErrorUndo(ps, r) ==
    {IF p.id = r.pid THEN [p EXCEPT !.status = "PENDING", !.sellerId = NoUser]
                     ELSE p : p \in ps}

\* What the catch block (next(error)) and errorHandler leave in table Project
\* when request r fails: they answer and write nothing.
OnError(ps, r) == ps

SelectBidFind(r) ==
    /\ r.op = "selectBid"
    /\ FindOwnedProject(r, "findBid")

SelectBidFindBid(r) ==
    /\ r.op = "selectBid" /\ r.pc = "findBid"
    /\ UNCHANGED <<store, ids>>
    /\ IF AnswerProject(r) = 404 THEN Leave(r)
       ELSE Continue(r, [r EXCEPT !.pc = "updProject"])

\* A project write that sets the status and leaves the seller out.
SelectBidStatusOnly(p, sellerId) == [p EXCEPT !.status = "IN_PROGRESS"]

\* data: {status: 'IN_PROGRESS', sellerId: sellerId}
SelectBidProjectData(p, sellerId) ==
    [p EXCEPT !.status = "IN_PROGRESS", !.sellerId = sellerId]

SelectBidUpdateProject(r) ==
    /\ r.op = "selectBid" /\ r.pc = "updProject"
    /\ UNCHANGED <<bids, files, ids>>
    /\ IF AnswerProject(r) = 500
       THEN Leave(r) /\ projects' = OnError(projects, r)
       ELSE /\ projects' = (projects \ {ProjectRow(r.pid)})
                              \cup {SelectBidProjectData(ProjectRow(r.pid), r.sellerId)}
            /\ Continue(r, [r EXCEPT !.pc = "accept"])

\* prisma.bid.update({where: {id: bidId}, data: {status: 'ACCEPTED'}}):
\* rejected (P2025) when the bid is gone.
SelectBidAccept(r) ==
    /\ r.op = "selectBid" /\ r.pc = "accept"
    /\ UNCHANGED <<files, ids>>
    /\ IF AnswerProject(r) = 500
       THEN /\ Leave(r)
            /\ projects' = OnError(projects, r)
            /\ UNCHANGED bids
       ELSE /\ bids' = (bids \ {BidRow(r.bidId)})
                          \cup {[BidRow(r.bidId) EXCEPT !.status = "ACCEPTED"]}
            /\ UNCHANGED projects
            /\ Continue(r, [r EXCEPT !.pc = "reject"])

\* An updateMany that matches no bid.
RejectNone(bs, pid, bidId) == bs

\* prisma.bid.updateMany({where: {projectId, id: {not: bidId}},
\*                        data: {status: 'REJECTED'}})
RejectOthers(bs, pid, bidId) ==
    {IF b.projectId = pid /\ b.id # bidId
        THEN [b EXCEPT !.status = "REJECTED"] ELSE b : b \in bs}

SelectBidReject(r) ==
    /\ r.op = "selectBid" /\ r.pc = "reject"
    /\ bids' = RejectOthers(bids, r.pid, r.bidId)
    /\ UNCHANGED <<projects, files, ids>>
    /\ Continue(r, [r EXCEPT !.pc = "email"])

CompleteProjectFind(r) ==
    /\ r.op = "completeProject"
    /\ FindOwnedProject(r, "update")

\* A completing write that also clears the seller.
CompleteProjectDataClearSeller(p) ==
    [p EXCEPT !.status = "COMPLETED", !.sellerId = NoUser]

\* data: {status: 'COMPLETED'}
CompleteProjectData(p) == [p EXCEPT !.status = "COMPLETED"]

CompleteProjectUpdate(r) ==
    /\ r.op = "completeProject" /\ r.pc = "update"
    /\ UNCHANGED <<bids, files, ids>>
    /\ IF AnswerProject(r) = 500 THEN Leave(r) /\ UNCHANGED projects
       ELSE /\ projects' = (projects \ {ProjectRow(r.pid)})
                              \cup {CompleteProjectData(ProjectRow(r.pid))}
            \* if (project.seller && project.seller.email) await sendEmail(...)
            /\ IF AnswerProject(r) = 0
               THEN Continue(r, [r EXCEPT !.pc = "email"])
               ELSE Leave(r)

\* await sendEmail(...) and the success response that follows it.  sendEmail
\* catches its own errors, so the handler goes on whatever the transport did.
SendEmail(r) ==
    /\ r.pc = "email"
    /\ UNCHANGED <<store, ids>>
    /\ Leave(r)

\* ------------------------------------- uploadProjectFiles (POST /:id/files)
RECURSIVE FilesToCome(_)
\* File rows that the uploads in flight (the set S) will still create.
FilesToCome(S) ==
    IF S = {} THEN 0
    ELSE LET r == CHOOSE x \in S : TRUE
         IN r.val * CopiesIn(r, inflight) + FilesToCome(S \ {r})

UploadFind ==
    \E u \in Users, pid \in ProjectIdInputs, n \in FileCountInputs :
        LET r == Request("uploadProjectFiles", "createFile", u, pid, 0, NoUser, n) IN
        /\ (nextFileId - 1) + FilesToCome(InFlight("uploadProjectFiles")) + n <= MaxFiles
        /\ Enter(r, UploadCheck(r))
        /\ UNCHANGED <<store, ids>>

\* prisma.file.create with project: {connect: {id}}: rejected when the project
\* is gone.  One awaited create per uploaded file.
UploadCreateFile(r) ==
    /\ r.op = "uploadProjectFiles" /\ r.pc = "createFile"
    /\ UNCHANGED <<projects, bids, nextProjectId, nextBidId>>
    /\ IF AnswerProject(r) = 500
       THEN Leave(r) /\ UNCHANGED <<files, nextFileId>>
       ELSE /\ files' = files \cup {[id |-> nextFileId, projectId |-> r.pid]}
            /\ nextFileId' = nextFileId + 1
            /\ Continue(r, [r EXCEPT !.val = r.val - 1,
                                     !.pc = IF r.val = 1 THEN "reload" ELSE "createFile"])

\* The final findUnique; updatedProject.files throws when the row is gone.
UploadReload(r) ==
    /\ r.op = "uploadProjectFiles" /\ r.pc = "reload"
    /\ UNCHANGED <<store, ids>>
    /\ Leave(r)

\* --------------------------------------- getProjectBids (GET /:id/bids)
\* The project lookup and the checks that follow it: 404, 403 (neither the
\* owner nor a seller), or 0 (go on).
GetProjectBidsCheck(r) ==
    IF ~HasProject(r.pid) THEN 404
    ELSE IF ProjectRow(r.pid).buyerId # r.user /\ Role(r.user) # "SELLER" THEN 403
    ELSE 0

\* const isOwner = project.buyerId === req.user.id, kept in r.val (1: owner).
\* The owner goes straight to findMany, a seller to the hasBid lookup.
GetProjectBidsLooked(r) ==
    IF HasProject(r.pid) /\ ProjectRow(r.pid).buyerId = r.user
    THEN [r EXCEPT !.pc = "findMany", !.val = 1]
    ELSE [r EXCEPT !.pc = "hasBid", !.val = 0]

GetProjectBidsFind ==
    \E u \in Callers, pid \in ProjectIdInputs :
        LET r == Request("getProjectBids", "find", u, pid, 0, NoUser, 0) IN
        /\ Enter(GetProjectBidsLooked(r), GetProjectBidsCheck(r))
        /\ UNCHANGED <<store, ids>>

\* if (!hasBid) -> 403
GetProjectBidsHasBid(r) ==
    /\ r.op = "getProjectBids" /\ r.pc = "hasBid"
    /\ UNCHANGED <<store, ids>>
    /\ IF AnswerProject(r) = 403 THEN Leave(r)
       ELSE Continue(r, [r EXCEPT !.pc = "findMany"])

\* A seller view that always carries the email.
SellerViewWithEmail(us, sellerId, isOwner) ==
    [id |-> sellerId,
     email |-> (CHOOSE x \in us : x.id = sellerId).email]

\* include: {seller: {select: {id: true, name: true, email: isOwner}}}
SellerView(us, sellerId, isOwner) ==
    [id |-> sellerId,
     email |-> IF isOwner THEN (CHOOSE x \in us : x.id = sellerId).email
                          ELSE NoEmail]

\* The body of the 200 response: the project's bids, each with its seller.
\* (The order of the list, by createdAt, is left out.)
ProjectBidsResponse(us, bs, isOwner) ==
    {[id |-> b.id, status |-> b.status, amount |-> b.amount,
      sellerId |-> b.sellerId, seller |-> SellerView(us, b.sellerId, isOwner)]
        : b \in bs}

\* prisma.bid.findMany({where: {projectId}, ...}) and the 200 response.
GetProjectBidsFindMany(r) ==
    /\ r.op = "getProjectBids" /\ r.pc = "findMany"
    /\ UNCHANGED <<store, ids>>
    /\ Leave(r)

\* ----------------------------------------------------- bid.controller.js
\* The checks of createBid without the test of the project's status.
CreateBidCheckAnyStatus(r, valid) ==
    IF Role(r.user) # "SELLER" THEN 403
    ELSE IF ~valid THEN 400
    ELSE IF ~HasProject(r.pid) THEN 404
    ELSE 0

\* requireSeller and the role check, the body check, the project lookup and
\* its checks: 403, 400, 404, 400 (status), or 0 (go on).
CreateBidCheck(r, valid) ==
    IF Role(r.user) # "SELLER" THEN 403
    ELSE IF ~valid THEN 400
    ELSE IF ~HasProject(r.pid) THEN 404
    ELSE IF ~ProjectEditable(ProjectRow(r.pid).status) THEN 400
    ELSE 0

\* if (bid.status !== 'PENDING' || bid.project.status !== 'PENDING') -> 400
BidEditable(bidStatus, projectStatus) ==
    ~(bidStatus # "PENDING" \/ projectStatus # "PENDING")

\* The checks of updateBid and deleteBid without the test of the bid's seller.
EditBidCheckAnySeller(r) ==
    IF Role(r.user) # "SELLER" THEN 403
    ELSE IF ~HasBid(r.bidId) THEN 404
    ELSE IF ~BidEditable(BidRow(r.bidId).status,
                         ProjectRow(BidRow(r.bidId).projectId).status) THEN 400
    ELSE 0

\* requireSeller, then the lookup of updateBid and deleteBid (the bid with its
\* project) and their checks: 403 (role), 404, 403 (not the bid's seller),
\* 400, or 0 (go on).
EditBidCheck(r) ==
    IF Role(r.user) # "SELLER" THEN 403
    ELSE IF ~HasBid(r.bidId) THEN 404
    ELSE IF BidRow(r.bidId).sellerId # r.user THEN 403
    ELSE IF ~BidEditable(BidRow(r.bidId).status,
                         ProjectRow(BidRow(r.bidId).projectId).status) THEN 400
    ELSE 0

\* The status code that request r of bid.controller.js answers with when it
\* takes its next step in the current store; 0 when that step does not answer.
AnswerBid(r) ==
    CASE r.op = "createBid" /\ r.pc = "findExisting" ->
            IF BidsOfSeller(r.pid, r.user) # {} THEN 400 ELSE 0
      [] r.op = "createBid" /\ r.pc = "create" ->
            IF ~HasProject(r.pid) THEN 500 ELSE 0
      [] r.op = "createBid" /\ r.pc = "email" -> 201
      [] r.op = "updateBid" /\ r.pc = "update" ->
            IF ~HasBid(r.bidId) THEN 500 ELSE 200
      [] r.op = "deleteBid" /\ r.pc = "delete" ->
            IF ~HasBid(r.bidId) THEN 500 ELSE 200
      [] OTHER -> 0

BidOps == {"createBid", "updateBid", "deleteBid"}

\* An error handling that answers a rejected store call (the row is gone) with
\* 404.
AnswerGoneRowNotFound(r) ==
    LET code == IF r.op \in BidOps THEN AnswerBid(r) ELSE AnswerProject(r)
    IN IF code = 500 THEN 404 ELSE code

Answer(r) == IF r.op \in BidOps THEN AnswerBid(r) ELSE AnswerProject(r)

CreateBidFind ==
    \E u \in Users, pid \in ProjectIdInputs, valid \in BOOLEAN :
        LET r == Request("createBid", "findExisting", u, pid, 0, NoUser, 0) IN
        /\ nextBidId + Copies(InFlight("createBid")) <= MaxBids
        /\ Enter(r, CreateBidCheck(r, valid))
        /\ UNCHANGED <<store, ids>>

\* if (existingBid) -> 400
CreateBidFindExisting(r) ==
    /\ r.op = "createBid" /\ r.pc = "findExisting"
    /\ UNCHANGED <<store, ids>>
    /\ IF AnswerBid(r) = 400 THEN Leave(r)
       ELSE Continue(r, [r EXCEPT !.pc = "create"])

NewBid(id, pid, u) ==
    [id |-> id, projectId |-> pid, sellerId |-> u, status |-> "PENDING",
     amount |-> 1]

\* prisma.bid.create with project: {connect: {id}}: rejected when the project
\* is gone.  Table Bid has no unique index on (projectId, sellerId).
CreateBidCreate(r) ==
    /\ r.op = "createBid" /\ r.pc = "create"
    /\ UNCHANGED <<projects, files, nextProjectId, nextFileId>>
    /\ IF AnswerBid(r) = 500
       THEN Leave(r) /\ UNCHANGED <<bids, nextBidId>>
       ELSE /\ bids' = bids \cup {NewBid(nextBidId, r.pid, r.user)}
            /\ nextBidId' = nextBidId + 1
            /\ Continue(r, [r EXCEPT !.pc = "email", !.bidId = nextBidId])

\* The request with what its lookup read: the bid's project.
LookedBid(r) ==
    IF ~HasBid(r.bidId) THEN r
    ELSE [r EXCEPT !.pid = BidRow(r.bidId).projectId]

UpdateBidFind ==
    \E u \in Users, bidId \in EditBidIdInputs, amount \in AmountInputs :
        LET r == Request("updateBid", "update", u, 0, bidId, NoUser, amount) IN
        /\ Enter(LookedBid(r), EditBidCheck(r))
        /\ UNCHANGED <<store, ids>>

DeleteBidFind ==
    \E u \in Users, bidId \in EditBidIdInputs :
        LET r == Request("deleteBid", "delete", u, 0, bidId, NoUser, 0) IN
        /\ Enter(LookedBid(r), EditBidCheck(r))
        /\ UNCHANGED <<store, ids>>

\* updateData of updateBid: only the fields the body carries.
UpdateBidData(b, amount) ==
    IF amount # 0 THEN [b EXCEPT !.amount = amount] ELSE b

\* prisma.bid.update rejects (P2025) when the row is gone: 500.
UpdateBidUpdate(r) ==
    /\ r.op = "updateBid" /\ r.pc = "update"
    /\ UNCHANGED <<projects, files, ids>>
    /\ Leave(r)
    /\ IF AnswerBid(r) = 500 THEN UNCHANGED bids
       ELSE bids' = (bids \ {BidRow(r.bidId)})
                       \cup {UpdateBidData(BidRow(r.bidId), r.val)}

DeleteBidDelete(r) ==
    /\ r.op = "deleteBid" /\ r.pc = "delete"
    /\ UNCHANGED <<projects, files, ids>>
    /\ Leave(r)
    /\ IF AnswerBid(r) = 500 THEN UNCHANGED bids
       ELSE bids' = bids \ {BidRow(r.bidId)}

\* ------------------------------------------------------ specification
Next ==
    \/ CreateProject
    \/ StartUpdateProject
    \/ StartDeleteProject
    \/ StartSelectBid
    \/ StartCompleteProject
    \/ UploadFind
    \/ CreateBidFind
    \/ UpdateBidFind
    \/ DeleteBidFind
    \/ GetProjectBidsFind
    \/ \E r \in Requests : GetProjectBidsHasBid(r)
    \/ \E r \in Requests : GetProjectBidsFindMany(r)
    \/ \E r \in Requests : UpdateProjectFind(r)
    \/ \E r \in Requests : UpdateProjectUpdate(r)
    \/ \E r \in Requests : DeleteProjectFind(r)
    \/ \E r \in Requests : DeleteProjectDelete(r)
    \/ \E r \in Requests : SelectBidFind(r)
    \/ \E r \in Requests : SelectBidFindBid(r)
    \/ \E r \in Requests : SelectBidUpdateProject(r)
    \/ \E r \in Requests : SelectBidAccept(r)
    \/ \E r \in Requests : SelectBidReject(r)
    \/ \E r \in Requests : CompleteProjectFind(r)
    \/ \E r \in Requests : CompleteProjectUpdate(r)
    \/ \E r \in Requests : SendEmail(r)
    \/ \E r \in Requests : UploadCreateFile(r)
    \/ \E r \in Requests : UploadReload(r)
    \/ \E r \in Requests : CreateBidFindExisting(r)
    \/ \E r \in Requests : CreateBidCreate(r)
    \/ \E r \in Requests : UpdateBidUpdate(r)
    \/ \E r \in Requests : DeleteBidDelete(r)

Spec == Init /\ [][Next]_vars

\* --------------------------------------------- register (POST /auth/register)
\* Emails of register requests: one that is taken from the start, two new.
RegisterEmails == {"s1@x", "n1@x", "n2@x"}
Roles == {"BUYER", "SELLER"}

\* The ids that table User gives to new rows, in order.
FreshIds == <<"U1", "U2", "U3">>

\* A request of the authentication service and of the routers' middleware:
\* its operation or route, the stage of the route it is at, its credential,
\* the user id of its token, and the email and role of a register body.
AuthRequest(op, at, cred, u, email, role) ==
    [op |-> op, at |-> at, cred |-> cred, user |-> u, email |-> email,
     role |-> role]

\* prisma.user.findUnique({where: {email}})
ExistingUser(email) == \E x \in users : x.email = email

\* CREATE UNIQUE INDEX "User_email_key": an insert with a taken email is
\* rejected.
UserEmailKey(us, email) == \E x \in us : x.email = email

\* The body checks and the lookup of register: 400, 409, or 0 (go on).
RegisterCheck(email, valid) ==
    IF ~valid THEN 400
    ELSE IF ExistingUser(email) THEN 409
    ELSE 0

RegisterFind ==
    \E email \in RegisterEmails, role \in Roles, valid \in BOOLEAN :
        LET r == AuthRequest("register", 1, "none", NoUser, email, role) IN
        /\ nextUserId + Copies(InFlight("register")) <= Len(FreshIds)
        /\ Enter(r, RegisterCheck(email, valid))
        /\ UNCHANGED <<store, ids>>

\* The status code of a register request at its insert: the rejected insert
\* (P2002) carries no statusCode, so that errorHandler answers 500.
AnswerRegister(r) == IF UserEmailKey(users, r.email) THEN 500 ELSE 201

\* prisma.user.create and the 201 response.
RegisterCreate(r) ==
    /\ r.op = "register"
    /\ inflight' = inflight (-) SetToBag({r})
    /\ UNCHANGED <<store, ids>>
    /\ IF AnswerRegister(r) = 500 THEN UNCHANGED accounts
       ELSE /\ users' = users \cup {[id |-> FreshIds[nextUserId], email |-> r.email,
                                      role |-> r.role]}
            /\ nextUserId' = nextUserId + 1

\* ------------------------------------------- authenticate and the routers
\* The routes of the three routers.
ProjectRoutes ==
    {"GET /projects", "GET /projects/:id", "POST /projects", "PUT /projects/:id",
     "DELETE /projects/:id", "GET /projects/:id/bids",
     "POST /projects/:id/select-bid", "POST /projects/:id/complete",
     "POST /projects/:id/files"}
BidRoutes ==
    {"GET /bids/seller", "POST /bids", "GET /bids/:id", "PUT /bids/:id",
     "DELETE /bids/:id"}
ProfileRoutes == {"GET /auth/me"}
ProtectedRoutes == ProjectRoutes \cup BidRoutes \cup ProfileRoutes

\* router.use(authenticate), the first statement of both routers.
RouterUse(route) == <<"authenticate">>

\* The middleware and the controller that each route lists.
RouteHandlers(route) ==
    CASE route = "GET /projects" -> <<"getAllProjects">>
      [] route = "GET /projects/:id" -> <<"getProjectById">>
      [] route = "POST /projects" -> <<"requireBuyer", "createProject">>
      [] route = "PUT /projects/:id" -> <<"requireProjectOwner", "updateProject">>
      [] route = "DELETE /projects/:id" -> <<"requireProjectOwner", "deleteProject">>
      [] route = "GET /projects/:id/bids" -> <<"getProjectBids">>
      [] route = "POST /projects/:id/select-bid" -> <<"requireProjectOwner", "selectBid">>
      [] route = "POST /projects/:id/complete" -> <<"requireProjectOwner", "completeProject">>
      [] route = "POST /projects/:id/files" -> <<"upload.array", "uploadProjectFiles">>
      [] route = "GET /bids/seller" -> <<"requireSeller", "getSellerBids">>
      [] route = "POST /bids" -> <<"requireSeller", "createBid">>
      [] route = "GET /bids/:id" -> <<"getBidById">>
      [] route = "PUT /bids/:id" -> <<"requireSeller", "updateBid">>
      [] route = "DELETE /bids/:id" -> <<"requireSeller", "deleteBid">>

\* GET /auth/me: bearer token required, then the profile.
ProfileHandlers(route) == <<"authenticate", "getProfile">>

\* What runs for a request of the route, in order.
Pipeline(route) ==
    IF route \in ProfileRoutes THEN ProfileHandlers(route)
    ELSE RouterUse(route) \o RouteHandlers(route)

\* What a request carries as its credential: no Authorization header, a
\* header that does not start with 'Bearer ', a token that jwt.verify rejects
\* (JsonWebTokenError), an expired token (TokenExpiredError), a valid token.
Credentials == {"none", "notBearer", "invalid", "expired", "valid"}

\* The user ids of tokens: two registered users and one that has no row.
Ghost == "U0"
TokenUsers == {"B1", "S1", Ghost}

\* authenticate that takes an expired token for a valid one.
AuthenticateTokenNoExpiry(cred) ==
    IF cred \in {"none", "notBearer"} THEN 401
    ELSE IF cred = "invalid" THEN 401
    ELSE 0

\* authenticate up to its first await: the header check and jwt.verify, whose
\* errors the catch block turns into 401.
AuthenticateToken(cred) ==
    IF cred \in {"none", "notBearer"} THEN 401
    ELSE IF cred = "invalid" THEN 401
    ELSE IF cred = "expired" THEN 401
    ELSE 0

HasUser(id) == \E x \in users : x.id = id
UserRow(id) == CHOOSE x \in users : x.id = id

\* The status code with which the stage that request r is at ends the
\* request; 0 when the stage calls next() or is a stage whose outcome the
\* store decides (requireProjectOwner, upload.array, the controllers).
MiddlewareAnswer(r) ==
    LET m == Pipeline(r.op)[r.at] IN
    CASE m = "authenticate" -> IF ~HasUser(r.user) THEN 401 ELSE 0
      [] m = "requireBuyer" ->
            IF ~HasUser(r.user) \/ UserRow(r.user).role # "BUYER" THEN 403 ELSE 0
      [] m = "requireSeller" ->
            IF ~HasUser(r.user) \/ UserRow(r.user).role # "SELLER" THEN 403 ELSE 0
      [] OTHER -> 0

\* A request arrives on a protected route; refused before the first await of
\* authenticate, it is answered at once.
Arrive ==
    \E route \in ProtectedRoutes, cred \in Credentials, u \in TokenUsers :
        LET r == AuthRequest(route, 1, cred, u, NoEmail, "none") IN
        /\ Enter(r, AuthenticateToken(cred))
        /\ UNCHANGED <<store, ids>>

\* The stage that request r is at runs: it ends the request with an error,
\* or calls next(), or is the controller, which answers.
RunMiddleware(r) ==
    /\ r.op \in ProtectedRoutes
    /\ UNCHANGED <<store, ids>>
    /\ IF MiddlewareAnswer(r) # 0 \/ r.at = Len(Pipeline(r.op)) THEN Leave(r)
       ELSE Continue(r, [r EXCEPT !.at = r.at + 1])

\* ------------------------------------------------ login (POST /auth/login)
LoginEmails == RegisterEmails

\* The password of a login body: missing, the one whose hash the user's row
\* holds (bcrypt.compare gives true), or another one.
Passwords == {"none", "right", "wrong"}

\* errorHandler: the response to an error with this statusCode and message
\* that was thrown at this site; the stack is part of the response in
\* development only (NoStack elsewhere).
NoStack == "none"
ErrorHandler(statusCode, message, stack, env) ==
    [status |-> statusCode, message |-> message,
     stack |-> IF env = "development" THEN stack ELSE NoStack]

\* A response that is still to come: the handler goes on.
GoesOn == [status |-> 0, message |-> "", stack |-> NoStack]

\* A login whose failed lookup names its cause.
LoginFindResponseNamesUser(email, password, env) ==
    IF password = "none"
    THEN ErrorHandler(400, "Email and password are required", "login:75", env)
    ELSE IF ~ExistingUser(email)
    THEN ErrorHandler(401, "User not found", "login:86", env)
    ELSE GoesOn

\* login up to its second await: the body check and the lookup by email.
LoginFindResponse(email, password, env) ==
    IF password = "none"
    THEN ErrorHandler(400, "Email and password are required", "login:75", env)
    ELSE IF ~ExistingUser(email)
    THEN ErrorHandler(401, "Invalid credentials", "login:86", env)
    ELSE GoesOn

\* login after bcrypt.compare: 401, or 200 with the token and the user.
LoginCompareResponse(password, env) ==
    IF password # "right"
    THEN ErrorHandler(401, "Invalid credentials", "login:94", env)
    ELSE [status |-> 200, message |-> "token", stack |-> NoStack]

LoginFind ==
    \E email \in LoginEmails, password \in Passwords :
        LET r == AuthRequest("login", 2, password, NoUser, email, "none") IN
        /\ Enter(r, LoginFindResponse(email, password, "production").status)
        /\ UNCHANGED <<store, ids>>

\* bcrypt.compare settles and login answers.
LoginCompare(r) ==
    /\ r.op = "login"
    /\ UNCHANGED <<store, ids>>
    /\ Leave(r)

AuthNext ==
    \/ RegisterFind
    \/ \E r \in Requests : RegisterCreate(r)
    \/ LoginFind
    \/ \E r \in Requests : LoginCompare(r)
    \/ Arrive
    \/ \E r \in Requests : RunMiddleware(r)

AuthSpec == Init /\ [][AuthNext]_vars

\* ------------------------------------------------- sendEmail (part_004)
\* The handlers that notify: createBid, selectBid and completeProject await
\* sendEmail after their store writes.  In MailSpec the await is two steps,
\* the call of transporter.sendMail and its settling, and the request carries
\* in r.val what the transport does with the message; in Spec the await and
\* the response are the one step SendEmail.
MailOps == {"createBid", "selectBid", "completeProject"}

\* transporter.sendMail resolves (Delivered) or rejects (Failed).
Delivered == 1
Failed == 2
MailOutcomes == {Delivered, Failed}

\* process.env.NODE_ENV === 'development': the mail is logged, not sent.
NodeEnvs == {"development", "production"}

\* A sendEmail without its catch block: the transport's error reaches the
\* handler.
SendEmailRethrows(outcome) == IF outcome = Failed THEN "thrown" ELSE "returned"

\* How the call of sendEmail ends for the handler that awaits it: the catch
\* block logs the error and throws nothing.
SendEmailCatches(outcome) == "returned"

\* The status code of a request whose sendEmail has settled: the catch block
\* of the handler (500) when sendEmail threw, else the success response.
MailAnswer(r) ==
    IF SendEmailCatches(r.val) = "thrown" THEN 500
    ELSE IF r.op = "createBid" THEN 201
    ELSE 200

\* sendEmail up to its await: in development it returns at once and the
\* handler responds; otherwise it hands the message to the transport.
SendMail(r) ==
    /\ r.op \in MailOps /\ r.pc = "email"
    /\ UNCHANGED <<store, ids>>
    /\ \E env \in NodeEnvs :
          IF env = "development" THEN Leave(r)
          ELSE \E outcome \in MailOutcomes :
                  Continue(r, [r EXCEPT !.pc = "sending", !.val = outcome])

\* transporter.sendMail settles, sendEmail returns and the handler responds.
MailSettles(r) ==
    /\ r.op \in MailOps /\ r.pc = "sending"
    /\ UNCHANGED <<store, ids>>
    /\ Leave(r)

\* The steps of the notifying handlers that the server itself takes.
MailHandlerStep ==
    \E r \in Requests :
        \/ CreateBidFindExisting(r)
        \/ CreateBidCreate(r)
        \/ SelectBidFind(r)
        \/ SelectBidFindBid(r)
        \/ SelectBidUpdateProject(r)
        \/ SelectBidAccept(r)
        \/ SelectBidReject(r)
        \/ CompleteProjectFind(r)
        \/ CompleteProjectUpdate(r)
        \/ SendMail(r)

MailNext ==
    \/ CreateProject
    \/ CreateBidFind
    \/ StartSelectBid
    \/ StartCompleteProject
    \/ \E r \in Requests : CreateBidFindExisting(r)
    \/ \E r \in Requests : CreateBidCreate(r)
    \/ \E r \in Requests : SelectBidFind(r)
    \/ \E r \in Requests : SelectBidFindBid(r)
    \/ \E r \in Requests : SelectBidUpdateProject(r)
    \/ \E r \in Requests : SelectBidAccept(r)
    \/ \E r \in Requests : SelectBidReject(r)
    \/ \E r \in Requests : CompleteProjectFind(r)
    \/ \E r \in Requests : CompleteProjectUpdate(r)
    \/ \E r \in Requests : SendMail(r)
    \/ \E r \in Requests : MailSettles(r)

MailSpec == Init /\ [][MailNext]_vars

\* The server takes its own steps; nothing makes the mail transport settle.
MailLiveSpec == MailSpec /\ WF_vars(MailHandlerStep)

\* ------------------------------------------- getAllProjects (GET /projects)
\* findMany orders by createdAt desc: the newest row, which has the largest
\* id, comes first.
RECURSIVE NewestFirst(_)
NewestFirst(S) ==
    IF S = {} THEN <<>>
    ELSE LET m == CHOOSE x \in S : \A y \in S : y <= x
         IN <<m>> \o NewestFirst(S \ {m})

\* The ids of a query's rows as the number the request keeps them in, and back.
RECURSIVE IdsCode(_)
IdsCode(S) ==
    IF S = {} THEN 0
    ELSE LET m == CHOOSE x \in S : TRUE IN 2 ^ (m - 1) + IdsCode(S \ {m})

CodeIds(n) == {i \in 1..MaxProjects : (n \div (2 ^ (i - 1))) % 2 = 1}

\* The rows of a query in the response: the project's id and the query that
\* gave the row.
Listed(idList, query) == [i \in 1..Len(idList) |-> [id |-> idList[i], from |-> query]]

\* findMany({where: {buyerId}}), {where: {status: 'PENDING'}} and
\* {where: {sellerId}} with no query filter.
BuyerProjectIds(u) == {p.id : p \in {q \in projects : q.buyerId = u}}
PendingProjectIds == {p.id : p \in {q \in projects : q.status = "PENDING"}}
SellerProjectIds(u) == {p.id : p \in {q \in projects : q.sellerId = u}}

RECURSIVE RemoveDuplicates(_)
\* Array.from(new Map(projects.map(p => [p.id, p])).values()): one entry for
\* each id, at the place of the id's first row and with its last row.
RemoveDuplicates(list) ==
    IF list = <<>> THEN <<>>
    ELSE LET front == RemoveDuplicates(SubSeq(list, 1, Len(list) - 1))
             last == list[Len(list)]
         IN IF \E i \in 1..Len(front) : front[i].id = last.id
            THEN [i \in 1..Len(front) |->
                     IF front[i].id = last.id THEN last ELSE front[i]]
            ELSE Append(front, last)

\* The 200 response of a buyer: the rows of the one query.
BuyerProjectsResponse(u) == Listed(NewestFirst(BuyerProjectIds(u)), "buyer")

\* A seller's response that is left as the two queries were combined.
SellerProjectsCombined(pendingIds, u) ==
    Listed(NewestFirst(pendingIds), "pending")
        \o Listed(NewestFirst(SellerProjectIds(u)), "seller")

\* The 200 response of a seller: the pending rows that the first query read
\* (pendingIds), then the rows of the second query, without duplicates.
SellerProjectsResponse(pendingIds, u) ==
    RemoveDuplicates(Listed(NewestFirst(pendingIds), "pending")
                        \o Listed(NewestFirst(SellerProjectIds(u)), "seller"))

\* A buyer's request has one query and answers with it; a seller's request
\* goes on to its second query with the rows of the first.
GetAllProjectsFind ==
    \E u \in Callers :
        LET r == Request("getAllProjects", "sellerProjects", u, 0, 0, NoUser,
                         IdsCode(PendingProjectIds))
        IN /\ Enter(r, IF Role(u) = "BUYER" THEN 200 ELSE 0)
           /\ UNCHANGED <<store, ids>>

\* The second query of a seller and the response.
GetAllProjectsSeller(r) ==
    /\ r.op = "getAllProjects" /\ r.pc = "sellerProjects"
    /\ UNCHANGED <<store, ids>>
    /\ Leave(r)

\* ------------------------------------------------ getBidById (GET /bids/:id)
\* A getBidById that shows a bid to every seller.
GetBidByIdResponseAnySeller(u, bidId) ==
    IF ~HasBid(bidId) THEN [status |-> 404, body |-> {}]
    ELSE IF Role(u) # "SELLER"
            /\ ~(ProjectRow(BidRow(bidId).projectId).buyerId = u)
         THEN [status |-> 403, body |-> {}]
    ELSE [status |-> 200, body |-> {BidRow(bidId)}]

\* The response to caller u: 404, 403 (neither isOwner nor isProjectOwner),
\* or 200 with the bid; an error response carries no bid.
GetBidByIdResponse(u, bidId) ==
    IF ~HasBid(bidId) THEN [status |-> 404, body |-> {}]
    ELSE IF ~(BidRow(bidId).sellerId = u)
            /\ ~(ProjectRow(BidRow(bidId).projectId).buyerId = u)
         THEN [status |-> 403, body |-> {}]
    ELSE [status |-> 200, body |-> {BidRow(bidId)}]

\* The handler's one store call is its lookup; it answers right after it.
GetBidById ==
    \E u \in Callers, bidId \in EditBidIdInputs :
        LET r == Request("getBidById", "find", u, 0, bidId, NoUser, 0) IN
        /\ Enter(r, GetBidByIdResponse(u, bidId).status)
        /\ UNCHANGED <<store, ids>>

\* The handlers that only read, getAllProjects and getBidById, next to the
\* handlers that change what they read.
ListNext ==
    \/ CreateProject
    \/ GetBidById
    \/ CreateBidFind
    \/ StartSelectBid
    \/ StartCompleteProject
    \/ StartDeleteProject
    \/ GetAllProjectsFind
    \/ \E r \in Requests : GetAllProjectsSeller(r)
    \/ \E r \in Requests : CreateBidFindExisting(r)
    \/ \E r \in Requests : CreateBidCreate(r)
    \/ \E r \in Requests : SelectBidFind(r)
    \/ \E r \in Requests : SelectBidFindBid(r)
    \/ \E r \in Requests : SelectBidUpdateProject(r)
    \/ \E r \in Requests : SelectBidAccept(r)
    \/ \E r \in Requests : SelectBidReject(r)
    \/ \E r \in Requests : CompleteProjectFind(r)
    \/ \E r \in Requests : CompleteProjectUpdate(r)
    \/ \E r \in Requests : DeleteProjectFind(r)
    \/ \E r \in Requests : DeleteProjectDelete(r)
    \/ \E r \in Requests : SendEmail(r)

ListSpec == Init /\ [][ListNext]_vars

\* ---------------------------------------------------- sequential requests
\* The handlers of a project's life, one request at a time: a request is
\* sent when the response to the one before it has come.
ScenarioNext ==
    \/ inflight = EmptyBag /\ CreateProject
    \/ inflight = EmptyBag /\ CreateBidFind
    \/ inflight = EmptyBag /\ StartSelectBid
    \/ inflight = EmptyBag /\ StartCompleteProject
    \/ inflight = EmptyBag /\ StartUpdateProject
    \/ inflight = EmptyBag /\ StartDeleteProject
    \/ \E r \in Requests : CreateBidFindExisting(r)
    \/ \E r \in Requests : CreateBidCreate(r)
    \/ \E r \in Requests : SelectBidFind(r)
    \/ \E r \in Requests : SelectBidFindBid(r)
    \/ \E r \in Requests : SelectBidUpdateProject(r)
    \/ \E r \in Requests : SelectBidAccept(r)
    \/ \E r \in Requests : SelectBidReject(r)
    \/ \E r \in Requests : CompleteProjectFind(r)
    \/ \E r \in Requests : CompleteProjectUpdate(r)
    \/ \E r \in Requests : UpdateProjectFind(r)
    \/ \E r \in Requests : UpdateProjectUpdate(r)
    \/ \E r \in Requests : DeleteProjectFind(r)
    \/ \E r \in Requests : DeleteProjectDelete(r)
    \/ \E r \in Requests : SendEmail(r)

ScenarioSpec == Init /\ [][ScenarioNext]_vars

\* ------------------------------------------------------------ properties
\* In a step, request r took its step (it answered or moved on).
Left(r) == CopiesIn(r, inflight') < CopiesIn(r, inflight)

\* In a step, request r came in flight.
Came(r) == CopiesIn(r, inflight') > CopiesIn(r, inflight)

AcceptedBids(pid) == {b \in BidsOf(pid) : b.status = "ACCEPTED"}

\* C1: a project's stored status changes only PENDING -> IN_PROGRESS and
\* IN_PROGRESS -> COMPLETED, under every interleaving of requests: never
\* backward, never from PENDING straight to COMPLETED.
C1_StatusMonotonic ==
    [][\A p \in projects : \A q \in projects' :
          q.id = p.id =>
              \/ q.status = p.status
              \/ <<p.status, q.status>> \in {<<"PENDING", "IN_PROGRESS">>,
                                             <<"IN_PROGRESS", "COMPLETED">>}]_vars

\* C2: when a selectBid request answers success (it is past its writes and
\* its email, about to send 200), the bid it names is the one ACCEPTED bid of
\* the project and every other bid of the project is REJECTED.
C2_SelectBidSettlesBids ==
    \A r \in Requests :
        (r.op = "selectBid" /\ r.pc = "email") =>
            /\ \E b \in BidsOf(r.pid) : b.id = r.bidId
            /\ \A b \in BidsOf(r.pid) :
                  b.status = IF b.id = r.bidId THEN "ACCEPTED" ELSE "REJECTED"

\* C3: in every reachable state, intermediate states of handlers in flight
\* included, a project has at most one ACCEPTED bid.
C3_AtMostOneAccepted ==
    \A p \in projects : Cardinality(AcceptedBids(p.id)) <= 1

\* C4: in every reachable state a project's sellerId is null if and only if
\* its status is PENDING.
C4_SellerIffNotPending ==
    \A p \in projects : (p.sellerId = NoUser) <=> (p.status = "PENDING")

\* C4 witness: a project that selectBid gave a seller and completeProject
\* then completed.
C4_Witness ==
    \E p \in projects : p.status = "COMPLETED" /\ p.sellerId \in Sellers

\* C5: once a project's sellerId is set, no step of any request changes it to
\* another seller or back to null.
C5_SellerFixed ==
    [][\A p \in projects : \A q \in projects' :
          (q.id = p.id /\ p.sellerId # NoUser) => q.sellerId = p.sellerId]_vars

\* C6: in every reachable state there is at most one bid for each
\* (seller, project) pair, interleaved createBid requests included.
C6_OneBidPerSellerAndProject ==
    \A b1 \in bids : \A b2 \in bids :
        (b1.projectId = b2.projectId /\ b1.sellerId = b2.sellerId) => b1.id = b2.id

\* C7: once a project is COMPLETED, no step of any request changes the
\* project's record or creates, modifies or deletes a bid of the project.
C7_CompletedFrozen ==
    [][\A p \in projects :
          p.status = "COMPLETED" =>
              /\ p \in projects'
              /\ {b \in bids' : b.projectId = p.id} = BidsOf(p.id)]_vars

\* An updateProject or deleteProject by the project's buyer, at the handler's
\* lookup, when the project it reads is IN_PROGRESS or COMPLETED.
OwnerEditsStarted(r) ==
    /\ r.op \in {"updateProject", "deleteProject"} /\ r.pc = "find"
    /\ HasProject(r.pid)
    /\ ProjectRow(r.pid).buyerId = r.user
    /\ ProjectRow(r.pid).status \in {"IN_PROGRESS", "COMPLETED"}

\* C8: when the project is IN_PROGRESS or COMPLETED at the handler's lookup,
\* updateProject and deleteProject by its buyer answer 400 and their step
\* changes nothing in the store; updateBid and deleteBid by the bid's seller
\* on a bid of such a project are refused with 400, and no such request gets
\* past its lookup or changes the store there.
C8_EditsRefusedOncePastPending ==
    [][/\ \A r \in Requests :
             OwnerEditsStarted(r) =>
                 /\ AnswerProject(r) = 400
                 /\ Left(r) => UNCHANGED store
       /\ \A b \in bids :
             ProjectRow(b.projectId).status \in {"IN_PROGRESS", "COMPLETED"} =>
                 /\ \A amount \in AmountInputs :
                       EditBidCheck(Request("updateBid", "update", b.sellerId,
                                            0, b.id, NoUser, amount)) = 400
                 /\ EditBidCheck(Request("deleteBid", "delete", b.sellerId,
                                         0, b.id, NoUser, 0)) = 400
       /\ \A r \in Requests' :
             (r.op \in {"updateBid", "deleteBid"} /\ Came(r)) =>
                 /\ ProjectRow(BidRow(r.bidId).projectId).status = "PENDING"
                 /\ UNCHANGED store]_vars

\* C8 witness: the buyer's deleteProject is at its lookup on a project that
\* is no longer PENDING and has a bid.
C8_Witness ==
    \E r \in Requests :
        /\ OwnerEditsStarted(r)
        /\ r.op = "deleteProject"
        /\ BidsOf(r.pid) # {}

\* A deleteProject by the owning buyer that has passed its checks on a project
\* that is (still) PENDING.
DeletesPending(r) ==
    /\ r.op = "deleteProject" /\ r.pc = "delete"
    /\ HasProject(r.pid)
    /\ ProjectRow(r.pid).buyerId = r.user
    /\ ProjectRow(r.pid).status = "PENDING"

\* C9: a deleteProject by the owning buyer on a PENDING project succeeds with
\* or without bids and files, and removes the project with every bid and every
\* file of the project.
C9_DeleteCascades ==
    [][\A r \in Requests :
          (DeletesPending(r) /\ Left(r)) =>
              /\ AnswerProject(r) = 200
              /\ \A p \in projects' : p.id # r.pid
              /\ \A b \in bids' : b.projectId # r.pid
              /\ \A f \in files' : f.projectId # r.pid]_vars

\* A selectBid that has written the project and whose next write is rejected.
FailsAfterProjectWrite(r) ==
    r.op = "selectBid" /\ r.pc = "accept" /\ AnswerProject(r) = 500

\* C10: selectBid's project write is a store write of its own, which sets
\* IN_PROGRESS and the seller; when the handler then fails before its bid
\* writes, the project (while it exists) is past PENDING with a seller set,
\* the bid the request names is not ACCEPTED, and the failing step writes
\* nothing: the error response does not undo the project write.
C10_FailureKeepsProjectWrite ==
    [][\A r \in Requests :
          /\ (r.op = "selectBid" /\ r.pc = "updProject" /\ Left(r)
                 /\ HasProject(r.pid)) =>
                 /\ \E q \in projects' :
                       /\ q.id = r.pid
                       /\ q.status = "IN_PROGRESS"
                       /\ q.sellerId = r.sellerId
                 /\ bids' = bids
          /\ FailsAfterProjectWrite(r) =>
                 /\ HasProject(r.pid) =>
                       /\ ProjectRow(r.pid).status # "PENDING"
                       /\ ProjectRow(r.pid).sellerId # NoUser
                 /\ \A b \in BidsOf(r.pid) : ~(b.id = r.bidId /\ b.status = "ACCEPTED")
                 /\ Left(r) => (projects' = projects /\ bids' = bids)]_vars

\* C10 witness: a selectBid is about to fail on its bid write (a racing
\* deleteBid removed the bid) while the project stands IN_PROGRESS with the
\* request's seller and none of its bids is ACCEPTED.
C10_Witness ==
    \E r \in Requests :
        /\ FailsAfterProjectWrite(r)
        /\ HasProject(r.pid)
        /\ ProjectRow(r.pid).status = "IN_PROGRESS"
        /\ ProjectRow(r.pid).sellerId = r.sellerId
        /\ AcceptedBids(r.pid) = {}

\* C11: two selectBid requests of the owning buyer on the same PENDING
\* project are not kept apart: a selectBid at its status check passes whenever
\* the project it reads is PENDING, whatever else is in flight, and its
\* project write and its accepting write go through whatever the project's and
\* the bid's status have become since.
C11_SelectBidNotSerialized ==
    \A r \in Requests :
        r.op = "selectBid" =>
            /\ (r.pc = "find" /\ HasProject(r.pid)
                  /\ ProjectRow(r.pid).buyerId = r.user
                  /\ ProjectRow(r.pid).status = "PENDING") => AnswerProject(r) = 0
            /\ (r.pc = "updProject" /\ HasProject(r.pid)) => AnswerProject(r) = 0
            /\ (r.pc = "accept" /\ HasBid(r.bidId)) => AnswerProject(r) = 0

\* C11 witness: nothing is in flight, the project is IN_PROGRESS, and its
\* ACCEPTED bid belongs to another seller than the project's sellerId (which
\* takes two selectBid requests naming different bids).
C11_Witness ==
    /\ inflight = EmptyBag
    /\ \E p \in projects :
          /\ p.status = "IN_PROGRESS"
          /\ \E b \in AcceptedBids(p.id) : b.sellerId # p.sellerId

\* C12: a bid is inserted only while its project's status is PENDING.
C12_BidInsertedWhilePending ==
    [][\A b \in bids' :
          (\A old \in bids : old.id # b.id) =>
              \E p \in projects : p.id = b.projectId /\ p.status = "PENDING"]_vars

\* C13: a bid starts PENDING and its status changes only PENDING -> ACCEPTED
\* or PENDING -> REJECTED.
C13_BidStatusTransitions ==
    [][\A c \in bids' :
          /\ (\A old \in bids : old.id # c.id) => c.status = "PENDING"
          /\ \A b \in bids :
                b.id = c.id =>
                    \/ c.status = b.status
                    \/ b.status = "PENDING" /\ c.status \in {"ACCEPTED", "REJECTED"}]_vars

ProjectWriteOps == {"updateProject", "deleteProject", "selectBid", "completeProject"}
BidWriteOps == {"updateBid", "deleteBid"}

\* C16: a step that changes or deletes a project record is the step of an
\* updateProject, deleteProject, selectBid or completeProject request whose
\* caller is the project's buyer; a step of an updateBid or deleteBid request
\* that changes a bid changes the bid of its caller; every other caller of
\* these operations is answered 403 at the ownership check, by the middleware
\* and by the controller.
C16_WritesByOwnerOnly ==
    [][/\ \A p \in projects :
             p \notin projects' =>
                 \E r \in Requests :
                     /\ Left(r)
                     /\ r.op \in ProjectWriteOps
                     /\ r.pid = p.id
                     /\ r.user = p.buyerId
       /\ \A r \in Requests :
             (r.op \in BidWriteOps /\ Left(r)) =>
                 \A b \in bids : b \notin bids' => (b.id = r.bidId /\ b.sellerId = r.user)
       /\ \A p \in projects : \A u \in Callers \ {p.buyerId} : \A op \in ProjectWriteOps :
             /\ RequireProjectOwner(Request(op, "find", u, p.id, 1, "S1", 0)) = 403
             /\ OwnedProjectCheck(Request(op, "find", u, p.id, 1, "S1", 0)) = 403
       /\ \A b \in bids : \A u \in Callers \ {b.sellerId} : \A op \in BidWriteOps :
             EditBidCheck(Request(op, "update", u, 0, b.id, NoUser, 0)) = 403
       /\ \A r \in Requests' :
             (r.op \in BidWriteOps /\ Came(r)) => BidRow(r.bidId).sellerId = r.user]_vars

\* C16 witness: the buyer's selectBid is about to write the project while a
\* seller's deleteBid is about to delete that seller's bid.
C16_Witness ==
    \E r \in Requests : \E q \in Requests :
        /\ r.op = "selectBid" /\ r.pc = "updProject" /\ HasProject(r.pid)
        /\ q.op = "deleteBid" /\ HasBid(q.bidId)

\* The bid that a selectBid request names exists with all three of id,
\* project and seller.
NamedBidExists(r) ==
    \E b \in bids : b.id = r.bidId /\ b.projectId = r.pid /\ b.sellerId = r.sellerId

\* C19: a selectBid of the owning buyer is answered 400 when the project it
\* reads is not PENDING and 404 exactly when its bid lookup finds no bid with
\* the given id, project and seller; it goes on to its writes only when such a
\* bid exists; the refused request changes neither project nor bids and ends
\* there, without reaching the notification.
C19_SelectBidRefusals ==
    [][\A r \in Requests :
          r.op = "selectBid" =>
              /\ (r.pc = "find" /\ HasProject(r.pid)
                    /\ ProjectRow(r.pid).buyerId = r.user
                    /\ ProjectRow(r.pid).status # "PENDING") => AnswerProject(r) = 400
              /\ r.pc = "findBid" =>
                    /\ (AnswerProject(r) = 404) <=> ~NamedBidExists(r)
                    /\ (AnswerProject(r) = 0) <=> NamedBidExists(r)
              /\ (r.pc \in {"find", "findBid"} /\ Left(r)) => UNCHANGED store
              /\ (AnswerProject(r) \in {400, 404} /\ Left(r)) =>
                    inflight' = inflight (-) SetToBag({r})]_vars

\* C19 witness: the buyer's selectBid is at its bid lookup on a PENDING
\* project that has bids, none of which matches the request.
C19_Witness ==
    \E r \in Requests :
        /\ r.op = "selectBid" /\ r.pc = "findBid"
        /\ HasProject(r.pid) /\ ProjectRow(r.pid).status = "PENDING"
        /\ BidsOf(r.pid) # {}
        /\ ~NamedBidExists(r)

\* C20: a completeProject of the owning buyer passes its status check exactly
\* when the project it reads is IN_PROGRESS and is answered 400, changing
\* nothing, when it is PENDING or COMPLETED; its write sets the status to
\* COMPLETED and changes nothing else of the project, no bid and no file.
C20_CompleteProject ==
    [][\A r \in Requests :
          r.op = "completeProject" =>
              /\ (r.pc = "find" /\ HasProject(r.pid)
                    /\ ProjectRow(r.pid).buyerId = r.user) =>
                    /\ (AnswerProject(r) = 0) <=> (ProjectRow(r.pid).status = "IN_PROGRESS")
                    /\ ProjectRow(r.pid).status \in {"PENDING", "COMPLETED"} =>
                          AnswerProject(r) = 400
              /\ (r.pc = "find" /\ Left(r)) => UNCHANGED store
              /\ (r.pc = "update" /\ Left(r) /\ HasProject(r.pid)) =>
                    /\ projects' = (projects \ {ProjectRow(r.pid)})
                          \cup {[ProjectRow(r.pid) EXCEPT !.status = "COMPLETED"]}
                    /\ UNCHANGED <<bids, files>>]_vars

\* C20 witness: the buyer's completeProject is about to write an IN_PROGRESS
\* project that has a seller and a bid.
C20_Witness ==
    \E r \in Requests :
        /\ r.op = "completeProject" /\ r.pc = "update"
        /\ HasProject(r.pid)
        /\ ProjectRow(r.pid).status = "IN_PROGRESS"
        /\ ProjectRow(r.pid).sellerId \in Sellers
        /\ BidsOf(r.pid) # {}

\* The caller of request r is the buyer of the project, or a seller who has a
\* bid on the project in the current store.
MayViewBids(r) ==
    \/ \E p \in projects : p.id = r.pid /\ p.buyerId = r.user
    \/ /\ Role(r.user) = "SELLER"
       /\ \E b \in bids : b.projectId = r.pid /\ b.sellerId = r.user

\* C17: getProjectBids on an existing project answers 403 at its first check
\* exactly to a caller who is neither the project's buyer nor a seller, and 403
\* at its second check exactly to a seller who has no bid on the project when
\* that check reads the store; a request gets to the query of the bid list
\* only as the project's buyer or as a seller whose bid the check has just
\* found, and a refused request ends without that query.
C17_BidListForBuyerAndBidders ==
    [][/\ \A p \in projects : \A u \in Callers :
             LET r == Request("getProjectBids", "find", u, p.id, 0, NoUser, 0) IN
             /\ (GetProjectBidsCheck(r) = 403) <=> (u # p.buyerId /\ Role(u) # "SELLER")
             /\ (GetProjectBidsCheck(r) = 0) <=> (u = p.buyerId \/ Role(u) = "SELLER")
       /\ \A r \in Requests :
             (r.op = "getProjectBids" /\ r.pc = "hasBid") =>
                 /\ (AnswerProject(r) = 403) <=> ~MayViewBids(r)
                 /\ (AnswerProject(r) = 403 /\ Left(r)) =>
                       inflight' = inflight (-) SetToBag({r})
       /\ \A r \in Requests' :
             (r.op = "getProjectBids" /\ r.pc = "findMany" /\ Came(r)) =>
                 MayViewBids(r)]_vars

\* C17 witness: a seller without a bid on the project is at the second check
\* while the project has another seller's bid.
C17_Witness ==
    \E r \in Requests :
        /\ r.op = "getProjectBids" /\ r.pc = "hasBid"
        /\ ~MayViewBids(r)
        /\ BidsOf(r.pid) # {}

\* The users table with the sellers' emails replaced by those of e.
WithSellerEmails(us, e) ==
    {IF x.id \in Sellers THEN [x EXCEPT !.email = e[x.id]] ELSE x : x \in us}

\* C18: the getProjectBids response carries the sellers' emails only for the
\* project's buyer: for a requester who is not the owner it carries no email
\* and is the same whatever the sellers' emails in the users table are; for
\* the owner it carries each bidder's email.
C18_EmailsOnlyForBuyer ==
    \A r \in Requests :
        (r.op = "getProjectBids" /\ r.pc = "findMany") =>
            /\ r.val = 1 => \A p \in projects : p.id = r.pid => p.buyerId = r.user
            /\ r.val = 0 =>
                  /\ \A v \in ProjectBidsResponse(users, BidsOf(r.pid), FALSE) :
                        v.seller.email = NoEmail
                  /\ \A e \in [Sellers -> Emails] :
                        ProjectBidsResponse(WithSellerEmails(users, e), BidsOf(r.pid), FALSE)
                            = ProjectBidsResponse(users, BidsOf(r.pid), FALSE)
            /\ r.val = 1 =>
                  \A v \in ProjectBidsResponse(users, BidsOf(r.pid), TRUE) :
                      v.seller.email = Email(v.sellerId)

\* C18 witness: a seller with a bid is at the query of the bid list of a
\* project that also has another seller's bid.
C18_Witness ==
    \E r \in Requests :
        /\ r.op = "getProjectBids" /\ r.pc = "findMany" /\ r.val = 0
        /\ \E b \in BidsOf(r.pid) : b.sellerId = r.user
        /\ \E b \in BidsOf(r.pid) : b.sellerId # r.user

\* C14: a register request whose email is taken when it answers is answered
\* 409 and creates no user, also when the lookups and inserts of two register
\* requests interleave; no two users share an email.
C14_SecondRegisterConflicts ==
    [][/\ \A r \in Requests :
             (r.op = "register" /\ Left(r) /\ ExistingUser(r.email)) =>
                 /\ AnswerRegister(r) = 409
                 /\ users' = users
       /\ \A x \in users' : \A y \in users' : x.email = y.email => x.id = y.id]_vars

\* A request on a protected route whose credential is not a valid token of
\* an existing user.
Unauthenticated(r) ==
    /\ r.op \in ProtectedRoutes
    /\ r.cred # "valid" \/ ~HasUser(r.user)

\* C15: on every route of the project and bid routers and on GET /auth/me
\* authenticate runs first; a request without a header, with a header that is
\* not a bearer header, with an invalid or an expired token is answered 401
\* before anything is awaited, one whose token names no existing user is
\* answered 401 by authenticate, and no such request ever gets past
\* authenticate to a role check, a middleware or a controller.
C15_Unauthenticated401 ==
    [][/\ \A route \in ProtectedRoutes : Pipeline(route)[1] = "authenticate"
       /\ \A cred \in Credentials \ {"valid"} : AuthenticateToken(cred) = 401
       /\ \A r \in Requests :
             Unauthenticated(r) =>
                 /\ r.at = 1
                 /\ r.cred = "valid"
                 /\ MiddlewareAnswer(r) = 401
                 /\ Left(r) => (inflight' = inflight (-) SetToBag({r})
                                   /\ UNCHANGED <<accounts, store>>)]_vars

\* C15 witness: a request with a valid token of a user that has no row is at
\* authenticate, on the upload route.
C15_Witness ==
    \E r \in Requests :
        /\ Unauthenticated(r)
        /\ r.op = "POST /projects/:id/files"
        /\ r.user = Ghost

\* C21: when the dispatch of the notification of a createBid, selectBid or
\* completeProject request fails, the request answers with the success status
\* it answers with when the dispatch succeeds, and the dispatch and the
\* response change nothing in the store: what the request wrote before the
\* dispatch stays as written.
C21_MailFailureNotPropagated ==
    [][\A r \in Requests :
          /\ (r.op \in MailOps /\ r.pc \in {"email", "sending"} /\ Left(r)) =>
                 UNCHANGED store
          /\ (r.op \in MailOps /\ r.pc = "sending" /\ r.val = Failed /\ Left(r)) =>
                 /\ MailAnswer(r) \in {200, 201}
                 /\ MailAnswer(r) = MailAnswer([r EXCEPT !.val = Delivered])]_vars

\* C21 witness: a selectBid request waits for a transport that will fail,
\* after it accepted its bid.
C21_Witness ==
    \E r \in Requests :
        /\ r.op = "selectBid" /\ r.pc = "sending" /\ r.val = Failed
        /\ \E b \in bids : b.id = r.bidId /\ b.status = "ACCEPTED"

\* A request of the operation has done its store writes and waits for the
\* mail transport.
Sending(op) == \E r \in Requests : r.op = op /\ r.pc = "sending"

\* C22: once the store writes of a createBid, selectBid or completeProject
\* request are done, its response is eventually sent, also when the dispatch
\* of the notification never completes.
C22_ResponseNotBlockedByMail ==
    \A op \in MailOps : Sending(op) ~> ~Sending(op)

\* The status code that the claim gives a createBid of caller u for project
\* pid, by what the handler's lookups read; 0: no failure.
CreateBidExpected(u, pid, valid) ==
    IF Role(u) # "SELLER" THEN 403
    ELSE IF ~valid THEN 400
    ELSE IF \A p \in projects : p.id # pid THEN 404
    ELSE IF \E p \in projects : p.id = pid /\ p.status # "PENDING" THEN 400
    ELSE 0

\* C23: a createBid that fails (caller not a SELLER: 403, missing field: 400,
\* project missing: 404, project not PENDING: 400, the seller's bid on the
\* project found: 400) inserts no bid and does not reach the notification; a
\* createBid that succeeds inserts exactly one bid, with status PENDING, the
\* caller as seller and the requested project, and then notifies.
C23_CreateBidOutcome ==
    [][/\ \A u \in Users, pid \in ProjectIdInputs, valid \in BOOLEAN :
             CreateBidCheck(Request("createBid", "findExisting", u, pid, 0, NoUser, 0),
                            valid) = CreateBidExpected(u, pid, valid)
       /\ \A r \in Requests :
             (r.op = "createBid" /\ r.pc # "email" /\ Left(r)) =>
                 LET notified == {q \in BagToSet(inflight') :
                                     q.op = "createBid" /\ q.pc = "email" /\ Came(q)}
                 IN
                 \/ /\ bids' = bids
                    /\ notified = {}
                    /\ \/ inflight' = inflight (-) SetToBag({r})
                       \/ r.pc = "findExisting" /\ BidsOfSeller(r.pid, r.user) = {}
                 \/ /\ r.pc = "create"
                    /\ \E b \in bids' \ bids :
                          /\ bids' = bids \cup {b}
                          /\ b.status = "PENDING"
                          /\ b.sellerId = r.user
                          /\ b.projectId = r.pid
                          /\ notified = {[r EXCEPT !.pc = "email", !.bidId = b.id]}]_vars

\* C23 witness: a createBid is at its lookup of the seller's bid while the
\* seller has a bid on the project, and a project that is not PENDING exists.
C23_Witness ==
    /\ \E r \in Requests :
          r.op = "createBid" /\ r.pc = "findExisting"
              /\ BidsOfSeller(r.pid, r.user) # {}
    /\ \E p \in projects : p.status # "PENDING"

\* A login with a wrong password for a known email is at bcrypt.compare.
WrongPasswordLogins == {r \in Requests : r.op = "login" /\ r.cred = "wrong"}

UnknownEmails == {e \in LoginEmails : ~ExistingUser(e)}

ListedIds(list) == {list[i].id : i \in 1..Len(list)}
ListedOnce(list) ==
    \A i \in 1..Len(list) : \A j \in 1..Len(list) : list[i].id = list[j].id => i = j

\* C25: getAllProjects without query filters answers a BUYER with exactly the
\* projects whose buyerId is the caller, whatever their status, and a SELLER
\* with exactly the PENDING projects (as its first query read them) together
\* with the projects whose sellerId is the caller (as its second query reads
\* them), each project id once.
C25_ProjectList ==
    [][/\ \A u \in Callers :
             Role(u) = "BUYER" =>
                 /\ ListedIds(BuyerProjectsResponse(u))
                        = {id \in 1..MaxProjects :
                              \E p \in projects : p.id = id /\ p.buyerId = u}
                 /\ ListedOnce(BuyerProjectsResponse(u))
       /\ \A r \in BagToSet(inflight') :
             (r.op = "getAllProjects" /\ Came(r)) =>
                 /\ Role(r.user) = "SELLER"
                 /\ CodeIds(r.val)
                        = {id \in 1..MaxProjects :
                              \E p \in projects : p.id = id /\ p.status = "PENDING"}
       /\ \A r \in Requests :
             (r.op = "getAllProjects" /\ Left(r)) =>
                 LET response == SellerProjectsResponse(CodeIds(r.val), r.user) IN
                 /\ ListedIds(response)
                        = CodeIds(r.val) \cup
                          {id \in 1..MaxProjects :
                              \E p \in projects : p.id = id /\ p.sellerId = r.user}
                 /\ ListedOnce(response)]_vars

\* C25 witness: a seller's getAllProjects read a project as PENDING, and at
\* its second query the project is the seller's own: both queries give it.
C25_Witness ==
    \E r \in Requests :
        /\ r.op = "getAllProjects"
        /\ CodeIds(r.val) \cap SellerProjectIds(r.user) # {}

\* C26: createProject answers 403 to every caller whose role is not BUYER
\* and creates nothing; every project that is created has status PENDING, no
\* seller and the caller, a buyer, as its buyer, whatever status and seller
\* the body carries.
C26_CreateProject ==
    [][/\ \A u \in Callers, valid \in BOOLEAN :
             Role(u) # "BUYER" <=> CreateProjectCheck(u, valid) = 403
       /\ \A u \in Callers, body \in ProjectBodies :
             LET p == CreateProjectData(nextProjectId, u, body) IN
             p.status = "PENDING" /\ p.sellerId = NoUser /\ p.buyerId = u
       /\ \A p \in projects' :
             (\A q \in projects : q.id # p.id) =>
                 /\ p.status = "PENDING"
                 /\ p.sellerId = NoUser
                 /\ Role(p.buyerId) = "BUYER"
                 /\ \E body \in ProjectBodies :
                       p = CreateProjectData(nextProjectId, p.buyerId, body)
                 /\ projects' = projects \cup {p}]_vars

\* C26 witness: the buyer's project was created and nothing else has touched
\* it.
C26_Witness ==
    /\ nextProjectId = 2
    /\ \E p \in projects : p = NewProject(1, "B1")
    /\ bids = {} /\ inflight = EmptyBag

\* The status code that the claim gives an upload of n files by caller u to
\* project pid, by what the handler's lookup reads; 0: no failure.
UploadExpected(u, pid, n) ==
    IF \A p \in projects : p.id # pid THEN 404
    ELSE IF \A p \in projects :
                p.id = pid => ~(p.buyerId = u \/ (p.sellerId # NoUser /\ p.sellerId = u))
         THEN 403
    ELSE IF n = 0 THEN 400
    ELSE 0

\* C27: uploadProjectFiles goes on to create file records only for a caller
\* that its lookup finds to be the project's buyer or its assigned seller and
\* that uploads at least one file; any other caller gets 403 and an
\* authorized caller without files 400, and then the request has created
\* nothing; each create adds exactly one file record of the project, one for
\* each uploaded file before the response, and no step of the request
\* changes a project or a bid.
C27_UploadProjectFiles ==
    [][/\ \A u \in Users, pid \in ProjectIdInputs, n \in FileCountInputs :
             UploadCheck(Request("uploadProjectFiles", "createFile", u, pid, 0,
                                 NoUser, n)) = UploadExpected(u, pid, n)
       /\ \A q \in BagToSet(inflight') :
             (q.op = "uploadProjectFiles" /\ q.pc = "createFile" /\ Came(q)
                 /\ \A r \in Requests : r.op = "uploadProjectFiles" => ~Left(r)) =>
                 /\ UploadExpected(q.user, q.pid, q.val) = 0
                 /\ UNCHANGED store
       /\ \A r \in Requests :
             (r.op = "uploadProjectFiles" /\ Left(r)) =>
                 /\ UNCHANGED <<projects, bids>>
                 /\ \/ /\ files' = files
                       /\ inflight' = inflight (-) SetToBag({r})
                       /\ r.pc = "reload" => r.val = 0
                    \/ /\ r.pc = "createFile" /\ r.val > 0
                       /\ \E f \in files' \ files :
                             files' = files \cup {f} /\ f.projectId = r.pid
                       /\ Came([r EXCEPT !.val = r.val - 1,
                                         !.pc = IF r.val = 1 THEN "reload"
                                                ELSE "createFile"])]_vars

\* C27 witness: the assigned seller of a project has uploaded a file to it
\* and waits for the reload.
C27_Witness ==
    \E r \in Requests :
        /\ r.op = "uploadProjectFiles" /\ r.pc = "reload"
        /\ HasProject(r.pid) /\ ProjectRow(r.pid).sellerId = r.user
        /\ FilesOf(r.pid) # {}

\* C28: getBidById answers 200 with the bid exactly when the caller is the
\* bid's seller or the buyer of the bid's project; every other caller of an
\* existing bid gets 403 and no bid.
C28_BidVisibleToSellerAndBuyer ==
    \A u \in Callers : \A b \in bids :
        LET response == GetBidByIdResponse(u, b.id)
            mayView == \/ b.sellerId = u
                       \/ \E p \in projects : p.id = b.projectId /\ p.buyerId = u
        IN IF mayView THEN response.status = 200 /\ response.body = {b}
           ELSE response.status = 403 /\ response.body = {}

\* C28 witness: seller S1 has a bid; its buyer sees it, seller S2 who also
\* bid on the project and the other buyer are refused.
C28_Witness ==
    \E b \in bids :
        /\ b.sellerId = "S1"
        /\ BidsOfSeller(b.projectId, "S2") # {}
        /\ GetBidByIdResponse("B1", b.id).status = 200
        /\ GetBidByIdResponse("S2", b.id).status = 403
        /\ GetBidByIdResponse("B2", b.id).status = 403

\* C29: with one request at a time, a created project is PENDING without a
\* seller and a created bid is PENDING; when a selectBid has done its writes
\* the project is IN_PROGRESS with the named seller, the named bid is that
\* seller's and ACCEPTED and every other bid of the project is REJECTED;
\* completeProject leaves the project COMPLETED; and once the project is
\* COMPLETED every updateProject, deleteProject and selectBid of its buyer is
\* answered 400 and no step changes the project or its bids.
C29_SequentialScenario ==
    [][/\ \A p \in projects' :
             (\A q \in projects : q.id # p.id) =>
                 p.status = "PENDING" /\ p.sellerId = NoUser
       /\ \A b \in bids' :
             (\A c \in bids : c.id # b.id) => b.status = "PENDING"
       /\ \A r \in Requests :
             (r.op = "selectBid" /\ r.pc = "email") =>
                 /\ \E p \in projects :
                       /\ p.id = r.pid
                       /\ p.status = "IN_PROGRESS"
                       /\ p.sellerId = r.sellerId
                 /\ \E b \in BidsOf(r.pid) :
                       b.id = r.bidId /\ b.sellerId = r.sellerId
                 /\ \A b \in BidsOf(r.pid) :
                       b.status = IF b.id = r.bidId THEN "ACCEPTED" ELSE "REJECTED"
       /\ \A r \in Requests :
             (r.op = "completeProject" /\ r.pc = "update" /\ Left(r)) =>
                 \E p \in projects' :
                     /\ p.id = r.pid
                     /\ p.status = "COMPLETED"
                     /\ p.sellerId = r.sellerId
       /\ \A p \in projects :
             p.status = "COMPLETED" =>
                 /\ p \in projects'
                 /\ {b \in bids' : b.projectId = p.id} = BidsOf(p.id)
                 /\ \A r \in Requests :
                       (r.op \in {"updateProject", "deleteProject", "selectBid"}
                           /\ r.pc = "find" /\ r.pid = p.id) =>
                           r.user = p.buyerId /\ AnswerProject(r) = 400]_vars

\* C29 witness: the scenario's end: the project is COMPLETED with seller S1,
\* the bid of S1 is ACCEPTED and the bid of S2 REJECTED, and a later
\* deleteProject of the buyer is about to be answered.
C29_Witness ==
    /\ \E p \in projects :
          /\ p.status = "COMPLETED" /\ p.sellerId = "S1" /\ p.buyerId = "B1"
          /\ \E b \in BidsOf(p.id) : b.sellerId = "S1" /\ b.status = "ACCEPTED"
          /\ \E b \in BidsOf(p.id) : b.sellerId = "S2" /\ b.status = "REJECTED"
    /\ \E r \in Requests : r.op = "deleteProject" /\ r.pc = "find"

C31_AssignedSellerHasAcceptedBid ==
    inflight = EmptyBag =>
        \A p \in projects :
            p.status \in {"IN_PROGRESS", "COMPLETED"} =>
                \E b \in AcceptedBids(p.id) : b.sellerId = p.sellerId

\* The status codes of a refusal.
ClientErrors == {400, 401, 403, 404, 409}

\* The positions at which a handler has only read: its lookups and checks.
ReadPositions == {"find", "findBid", "findExisting", "hasBid"}

\* C32: a request that is answered 400, 401, 403, 404 or 409 has written
\* nothing: it is answered at one of its lookups, every step it took up to
\* there left users, projects, bids and files as they were, and a request
\* that is past its lookups (it may have written) is never answered so; a
\* register and a login request in flight are past their checks and are
\* answered 201, 200, 401 (login, after reading only) or 500.
C32_RefusedRequestsWroteNothing ==
    [][/\ \A r \in Requests :
             /\ r.pc \notin ReadPositions => Answer(r) \notin ClientErrors
             /\ (r.pc \in ReadPositions /\ Left(r)) => UNCHANGED <<accounts, store>>
             /\ (Answer(r) \in ClientErrors /\ Left(r)) =>
                   /\ inflight' = inflight (-) SetToBag({r})
                   /\ UNCHANGED <<accounts, store>>
       /\ \A email \in RegisterEmails :
             AnswerRegister(AuthRequest("register", 1, "none", NoUser, email, "BUYER"))
                 \notin ClientErrors
       /\ \A password \in Passwords \ {"none"} :
             LoginCompareResponse(password, "production").status \in {200, 401}]_vars

\* C32 witness: a selectBid that has written the project is about to fail
\* because its bid is gone: it is past its lookups and is answered 500, not
\* with a refusal.
C32_Witness ==
    \E r \in Requests :
        /\ r.op = "selectBid" /\ r.pc = "accept"
        /\ ~HasBid(r.bidId)
        /\ HasProject(r.pid) /\ ProjectRow(r.pid).status = "IN_PROGRESS"

====
